---- MODULE Spec2Model ----
(***************************************************************************)
(* Model of src/handler.py: the RunPod job handler that injects an input   *)
(* image into a ComfyUI workflow, submits it, waits on the websocket for   *)
(* the completion event of that submission, fetches the produced images    *)
(* and returns the first one (uploaded to the object store).               *)
(*                                                                         *)
(* Every remote call (HTTP request, websocket connect, websocket receive)  *)
(* is one step; the local code that follows a call up to the next call is  *)
(* part of the same step.  What the remote side answers is chosen by the   *)
(* environment from the bounded sets below.                                *)
(***************************************************************************)
EXTENDS Integers, Sequences, FiniteSets, TLC

\* ------------------------------------------------------------------ bounds
MaxB64Len == 2        \* longest image_base64 string, in groups
MaxFrames == 2        \* frames delivered on the event channel per job
MaxNodes == 2         \* nodes in a history document's "outputs"
MaxImages == 2        \* image descriptors in one node's "images" list
MaxTimeout == 13      \* largest timeout argument tried on wait_for_comfyui
QualitySpan == 50     \* image_quality ranges this far below 0 and above 100

\* ------------------------------------------------------- program constants
DEFAULT_TIMEOUT == 180                                   \* handler.py:64
DEFAULT_QUALITY == 90                                    \* handler.py:218
MIN_QUALITY == 0                                         \* handler.py:219
MAX_QUALITY == 100                                       \* handler.py:219
INPUT_IMAGE_PATH == "/workspace/ComfyUI/input/input_image.jpg"
CLIENT_ID == "client-uuid"                               \* handler.py:53

Jobs == {1, 2}

\* ------------------------------------------------------------ python values
\* A Python value that may be None, a str or a dict is a tagged record, so that
\* values of different Python types are never compared directly.
None == [t |-> "none"]
Absent == [t |-> "absent"]           \* the key is not in the job input
Num(n) == [t |-> "int", n |-> n]
Str(s) == [t |-> "str", s |-> s]
B64(b) == [t |-> "b64", b |-> b]     \* a str holding base64 groups
Dict(d) == [t |-> "dict", d |-> d]

\* bool(v) for None, str and dict values
Truthy(v) ==
    CASE v.t = "none" -> FALSE
      [] v.t = "str" -> v.s # ""
      [] v.t = "b64" -> Len(v.b) > 0
      [] v.t = "dict" -> DOMAIN v.d # {}

\* ----------------------------------------------------------------- base64
\* An image_base64 string is a sequence of groups: "," is a comma, "I" a
\* well-formed base64 group that encodes the bytes of an image header, "J" a
\* well-formed group that encodes other bytes, "X" a group that violates the
\* alphabet or the padding rules (the "data:image/png;base64" part of a data
\* URI is such a group).
B64Groups == {",", "I", "J", "X"}

SeqsUpTo(S, n) == UNION {[1..k -> S] : k \in 0..n}

B64Strings == SeqsUpTo(B64Groups, MaxB64Len)

\* s.split(",", 1)[1] when "," in s, else s
StripDataUri(s) ==
    IF \E i \in 1..Len(s) : s[i] = ","
    THEN LET c == CHOOSE i \in 1..Len(s) :
                    s[i] = "," /\ \A k \in 1..(i - 1) : s[k] # ","
         IN SubSeq(s, c + 1, Len(s))
    ELSE s

\* base64.b64decode(s, validate=True): binascii.Error on any group outside the
\* alphabet, else the decoded bytes (chunk "IMG" for "I", "JNK" for "J")
B64Valid(s) == \A i \in 1..Len(s) : s[i] \in {"I", "J"}

B64Decode(s) == [i \in 1..Len(s) |-> IF s[i] = "I" THEN "IMG" ELSE "JNK"]

\* Image.open(BytesIO(raw)); img.load() succeeds: the bytes start with an image
IsImage(raw) == Len(raw) > 0 /\ raw[1] = "IMG"

\* bodies a download of image_url may return
DownloadBodies == {<<"IMG">>, <<"JNK">>, <<>>}


\* -------------------------------------------------------------- workflows
\* A workflow document maps node ids to nodes; a node is a mapping with a
\* class_type and (usually) an "inputs" mapping.
NodeLoadImage == [class_type |-> "LoadImage", inputs |-> [image |-> "original.png"]]
NodeSampler == [class_type |-> "KSampler", inputs |-> [seed |-> "7"]]
NodeEmptyInputs == [class_type |-> "LoadImage", inputs |-> <<>>]
NodeNoInputs == [class_type |-> "LoadImage"]

DocFull == ("1" :> NodeLoadImage) @@ ("2" :> NodeSampler)
DocEmptyInputs == ("1" :> NodeEmptyInputs) @@ ("2" :> NodeSampler)
DocNoInputs == ("1" :> NodeNoInputs) @@ ("2" :> NodeSampler)
DocNoNode1 == ("2" :> NodeSampler)
DocEmpty == <<>>

\* what the "workflow" field of a job input may hold
Workflows ==
    {None, Str(""), Str("{\"1\": ...}"), Dict(DocEmpty), Dict(DocFull),
     Dict(DocEmptyInputs), Dict(DocNoInputs), Dict(DocNoNode1)}

\* what reading and parsing the bundled workflow.json may give
DefaultFiles == {[ok |-> FALSE, doc |-> DocEmpty], [ok |-> TRUE, doc |-> DocFull],
                 [ok |-> TRUE, doc |-> DocNoNode1]}

\* d[k] = v on a dict
SetItem(d, k, v) == [x \in DOMAIN d \cup {k} |-> IF x = k THEN v ELSE d[x]]

\* workflow["1"]["inputs"]["image"] = path: the exception it raises, or "ok"
InjectError(wf) ==
    IF wf.t # "dict" THEN "TypeError"
    ELSE IF "1" \notin DOMAIN wf.d THEN "KeyError"
    ELSE IF "inputs" \notin DOMAIN wf.d["1"] THEN "KeyError"
    ELSE "ok"

\* workflow["1"] = {"inputs": {"image": path}}: the node is replaced
InjectImageReplaceNode(wf, path) ==
    Dict([wf.d EXCEPT !["1"] = [inputs |-> [image |-> path]]])

\* the document after workflow["1"]["inputs"]["image"] = path
InjectImage(wf, path) ==
    Dict([wf.d EXCEPT !["1"] =
            [@ EXCEPT !["inputs"] = SetItem(@, "image", path)]])

\* ------------------------------------------------------------ job inputs
ImageUrls == {None, Str(""), Str("http://x/img.png")}
ImageB64s == {None} \cup {B64(s) : s \in B64Strings}

JobInputs ==
    [image_url : ImageUrls, image_base64 : ImageB64s, workflow : Workflows,
     image_quality : {Absent}]

\* a small set of job inputs that pass input validation
CoreJobInputs ==
    {[image_url |-> None, image_base64 |-> B64(<<"I">>), workflow |-> w,
      image_quality |-> Absent] :
        w \in {None, Dict(DocFull)}}

\* one valid job input with a caller workflow
OneJobInput ==
    {[image_url |-> None, image_base64 |-> B64(<<"I">>), workflow |-> Dict(DocFull),
      image_quality |-> Absent]}

\* the image_quality values tried: absent, and every integer from QualitySpan
\* below MIN_QUALITY to QualitySpan above MAX_QUALITY
Qualities ==
    {Absent} \cup {Num(n) : n \in (MIN_QUALITY - QualitySpan)..(MAX_QUALITY + QualitySpan)}

\* one valid job input with every image_quality
QualityJobInputs ==
    {[image_url |-> None, image_base64 |-> B64(<<"I">>), workflow |-> Dict(DocFull),
      image_quality |-> q] : q \in Qualities}

\* max(0, min(100, q)) without the lower limit
ClampNoFloor(q) == IF q > MAX_QUALITY THEN MAX_QUALITY ELSE q

\* handler.py:219: max(0, min(100, image_quality))
Clamp(q) ==
    LET m == IF q < MAX_QUALITY THEN q ELSE MAX_QUALITY
    IN IF m > MIN_QUALITY THEN m ELSE MIN_QUALITY

\* handler.py:218: int(job_input.get("image_quality", 90))
QualityOf(inp) ==
    IF inp.image_quality.t = "absent" THEN DEFAULT_QUALITY ELSE inp.image_quality.n

\* ------------------------------------------------------------------ frames
PromptIds == {"p1", "p2"}
ABSENT == "<absent>"     \* the key is not in the JSON object
NULL == "<null>"         \* JSON null

Frame(kind, json, type, data, node, pid) ==
    [kind |-> kind, json |-> json, type |-> type, data |-> data,
     node |-> node, prompt_id |-> pid]

BinaryFrame == Frame("binary", "-", "-", "-", "-", "-")
NotJsonFrame == Frame("text", "invalid", "-", "-", "-", "-")
NonObjectFrame == Frame("text", "nonobject", "-", "-", "-", "-")

\* text frames holding a JSON object, with every combination of the keys the
\* wait loop reads present or absent
ObjectFrames ==
    {Frame("text", "object", ty, ABSENT, "-", "-") :
        ty \in {ABSENT, "executing", "status"}}
    \cup {Frame("text", "object", ty, "dict", n, p) :
            ty \in {ABSENT, "executing", "status"},
            n \in {ABSENT, NULL, "7"},
            p \in {ABSENT} \cup PromptIds}

Frames == {BinaryFrame, NotJsonFrame, NonObjectFrame} \cup ObjectFrames

Executing(n, p) == Frame("text", "object", "executing", "dict", n, p)

\* a small set of frames: the completion events, a progress event and a binary
CoreFrames == {BinaryFrame} \cup {Executing(NULL, p) : p \in PromptIds}
                \cup {Executing("7", p) : p \in PromptIds}

\* the wait loop without the comparison of prompt_id
OnFrameAnyPrompt(f, pid) ==
    IF f.kind # "text" THEN "continue"
    ELSE IF f.json = "invalid" THEN "JSONDecodeError"
    ELSE IF f.json = "nonobject" THEN "TypeError"
    ELSE IF f.type = ABSENT THEN "KeyError"
    ELSE IF f.type # "executing" THEN "continue"
    ELSE IF f.data = ABSENT THEN "KeyError"
    ELSE IF f.node = ABSENT THEN "KeyError"
    ELSE IF f.node # NULL THEN "continue"
    ELSE "break"

\* the completion events alone
CompletionFrames == {Executing(NULL, p) : p \in PromptIds}

\* one pass of the body of the wait loop on frame f (handler.py:164-168):
\* "break", "continue", or the exception it raises
OnFrame(f, pid) ==
    IF f.kind # "text" THEN "continue"
    ELSE IF f.json = "invalid" THEN "JSONDecodeError"
    ELSE IF f.json = "nonobject" THEN "TypeError"
    ELSE IF f.type = ABSENT THEN "KeyError"
    ELSE IF f.type # "executing" THEN "continue"
    ELSE IF f.data = ABSENT THEN "KeyError"
    ELSE IF f.node = ABSENT THEN "KeyError"
    ELSE IF f.node # NULL THEN "continue"
    ELSE IF f.prompt_id = ABSENT THEN "KeyError"
    ELSE IF f.prompt_id = pid THEN "break"
    ELSE "continue"

\* ---------------------------------------------------------------- history
Files == {"a.png", "b.png"}

\* a node output: without an "images" key, or with a list of descriptors
NodeOutputs ==
    {[hasImages |-> FALSE, images |-> <<>>]}
    \cup {[hasImages |-> TRUE, images |-> s] : s \in SeqsUpTo(Files, MaxImages)}

\* the answer to GET /history/<prompt_id>: a transport failure, a document
\* without the prompt's entry, or the entry's "outputs" in key order
Histories ==
    {[t |-> "fail", outputs |-> <<>>], [t |-> "noentry", outputs |-> <<>>]}
    \cup {[t |-> "doc", outputs |-> o] : o \in SeqsUpTo(NodeOutputs, MaxNodes)}

CoreHistories ==
    {[t |-> "fail", outputs |-> <<>>],
     [t |-> "doc", outputs |-> <<>>],
     [t |-> "doc", outputs |-> <<[hasImages |-> TRUE, images |-> <<"a.png">>]>>]}

\* the loops of handler.py:173-175 testing for a key no node output has
NextNodeWrongKey(outputs, n) == Len(outputs) + 1

\* position of the first image at or after (n, 1) in the nested loops of
\* handler.py:173-175: the first node from n on with a non-empty "images"
\* list, or Len(outputs) + 1 when there is none
NextNode(outputs, n) ==
    LET has == {k \in n..Len(outputs) :
                    outputs[k].hasImages /\ Len(outputs[k].images) > 0}
    IN IF has = {} THEN Len(outputs) + 1
       ELSE CHOOSE k \in has : \A m \in has : k <= m

\* ------------------------------------------------------------------ state
VARIABLES
    pc,          \* pc[j]: the statement job j is at
    job_input,   \* job_input[j]: the caller's job["input"] object (mutable)
    received,    \* received[j]: the value of job["input"] when the job arrived
    wf_ref,      \* which object handler's local `workflow` refers to
    loaded_wf,   \* the object json.load returned for the bundled default
    loaded_from, \* the source load_image_bytes read: "-", "url" or "base64"
    raw_bytes,   \* handler's local raw_bytes
    image_quality, \* handler's local image_quality (handler.py:218-219)
    obs,         \* obs[j]: what was seen of job j from outside: the workflow
                 \* load_workflow returned, whether a readiness probe
                 \* answered, the clientId of the websocket URL, the error
                 \* body the server answered POST /prompt with, the id in
                 \* the URL of GET /history
    file,        \* content of COMFY_INPUT_DIR/input_image.jpg (shared by jobs)
    caller,      \* who called wait_for_comfyui: "handler" or "direct"
    timeout,     \* wait_for_comfyui's timeout argument
    attempt,     \* completed iterations of wait_for_comfyui's loop
    probes,      \* outcomes of the probes of the wait_for_comfyui call in
                 \* progress, or of the direct call that ended
    probed,      \* the job has sent a readiness probe to the server
    ws,          \* the job's websocket: "none", "open" or "closed"
    submitted,   \* the payload POSTed to /prompt, and what the input image
                 \* file held at that moment
    prompt_id,   \* get_images' local prompt_id
    detector,    \* "-", "WAITING" (in the loop) or "COMPLETE" (after break)
    frames,      \* the frames ws.recv() returned to the job, in order
    history,     \* the "outputs" of the fetched history entry, in key order
    ni, ii,      \* position of the nested loops over nodes and images
    images,      \* get_images' list of fetched images
    pending,     \* exception in flight out of get_images' try block
    final_bytes, \* the image process_output_image encoded, and the quality
    calls,       \* calls[j][c]: how many calls of kind c the job has made
    result       \* what handler returned or raised

jobvars == <<pc, job_input, received, wf_ref, loaded_wf, loaded_from, raw_bytes,
             image_quality, obs>>
probevars == <<caller, timeout, attempt, probes, probed>>
chanvars == <<ws, submitted, prompt_id, detector, frames>>
extractvars == <<history, ni, ii, images, pending, final_bytes>>
vars == <<jobvars, file, probevars, chanvars, extractvars, calls, result>>

NoResult == [kind |-> "none", tag |-> "-", val |-> "-"]
Return(key, val) == [kind |-> "return", tag |-> key, val |-> val]
Raise(exc, msg) == [kind |-> "raise", tag |-> exc, val |-> msg]

CallKinds == {"download", "connect", "prompt", "history", "view", "process",
              "upload"}
\* the calls, besides the readiness probe, that reach the rendering server
RemoteKinds == {"connect", "prompt", "history", "view"}

NoInput == [image_url |-> None, image_base64 |-> None, workflow |-> None,
            image_quality |-> Absent]
NoFile == [writer |-> 0, data |-> <<>>]
NoPayload == [prompt |-> None, client_id |-> "-", on_disk |-> NoFile]
NoFinal == [image |-> "-", quality |-> DEFAULT_QUALITY]
NoObs == [resolved |-> None, ready |-> FALSE, ws_client |-> "-", reply |-> "-",
          fetched |-> "-", uploaded |-> "-"]

\* bodies the server may answer a rejected POST /prompt with
ErrorBodies == {"{\"error\": \"invalid prompt\"}", "{\"node_errors\": ...}"}

\* the state before any job arrives; the jobs of `active` are at statement
\* `first`, the others are not started
InitState(active, first) ==
    /\ pc = [j \in Jobs |-> IF j \in active THEN first ELSE "off"]
    /\ image_quality = [j \in Jobs |-> DEFAULT_QUALITY]
    /\ obs = [j \in Jobs |-> NoObs]
    /\ job_input = [j \in Jobs |-> NoInput]
    /\ received = [j \in Jobs |-> NoInput]
    /\ wf_ref = [j \in Jobs |-> "-"]
    /\ loaded_wf = [j \in Jobs |-> None]
    /\ loaded_from = [j \in Jobs |-> "-"]
    /\ raw_bytes = [j \in Jobs |-> <<>>]
    /\ file = NoFile
    /\ attempt = [j \in Jobs |-> 0]
    /\ probes = [j \in Jobs |-> <<>>]
    /\ probed = [j \in Jobs |-> FALSE]
    /\ ws = [j \in Jobs |-> "none"]
    /\ submitted = [j \in Jobs |-> NoPayload]
    /\ prompt_id = [j \in Jobs |-> "-"]
    /\ detector = [j \in Jobs |-> "-"]
    /\ frames = [j \in Jobs |-> <<>>]
    /\ history = [j \in Jobs |-> <<>>]
    /\ ni = [j \in Jobs |-> 0]
    /\ ii = [j \in Jobs |-> 0]
    /\ images = [j \in Jobs |-> <<>>]
    /\ pending = [j \in Jobs |-> NoResult]
    /\ final_bytes = [j \in Jobs |-> NoFinal]
    /\ calls = [j \in Jobs |-> [c \in CallKinds |-> 0]]
    /\ result = [j \in Jobs |-> NoResult]

\* job 1 is at statement `first`, job 2 is not started
InitJob(first) == InitState({1}, first)

\* one job is received by handler
Init ==
    /\ InitJob("start")
    /\ caller = [j \in Jobs |-> "handler"]
    /\ timeout = [j \in Jobs |-> DEFAULT_TIMEOUT]

\* the local `workflow` of handler: the caller's object or the loaded default
Workflow(j) == IF wf_ref[j] = "client" THEN job_input[j].workflow ELSE loaded_wf[j]

Called(j, c) == calls' = [calls EXCEPT ![j][c] = @ + 1]

\* handler ends: it returns a response or an exception propagates out of it
End(j, r) == pc' = [pc EXCEPT ![j] = "done"] /\ result' = [result EXCEPT ![j] = r]

Goto(j, s) == pc' = [pc EXCEPT ![j] = s]

\* handler without the call of wait_for_comfyui
AfterNoWait(s) ==
    CASE s = "start" -> "load_workflow"
      [] s = "load_workflow" -> "load_image_bytes"
      [] s = "load_image_bytes" -> "save_image"
      [] s = "save_image" -> "connect"
      [] s = "wait_for_comfyui" -> "connect"
      [] s = "connect" -> "queue_prompt"

\* handler submitting without opening the websocket
AfterNoConnect(s) ==
    CASE s = "start" -> "load_workflow"
      [] s = "load_workflow" -> "load_image_bytes"
      [] s = "load_image_bytes" -> "save_image"
      [] s = "save_image" -> "wait_for_comfyui"
      [] s = "wait_for_comfyui" -> "queue_prompt"
      [] s = "connect" -> "queue_prompt"

\* handler with the readiness wait moved before the input is loaded
AfterProbeFirst(s) ==
    CASE s = "start" -> "wait_for_comfyui"
      [] s = "wait_for_comfyui" -> "load_workflow"
      [] s = "load_workflow" -> "load_image_bytes"
      [] s = "load_image_bytes" -> "save_image"
      [] s = "save_image" -> "connect"
      [] s = "connect" -> "queue_prompt"

\* the statement of handler that follows statement s (handler.py:221-236)
After(s) ==
    CASE s = "start" -> "load_workflow"
      [] s = "load_workflow" -> "load_image_bytes"
      [] s = "load_image_bytes" -> "save_image"
      [] s = "save_image" -> "wait_for_comfyui"
      [] s = "wait_for_comfyui" -> "connect"
      [] s = "connect" -> "queue_prompt"

\* ---------------------------------------------------------------- handler
\* handler.py:210-222: the job arrives with one of `inputs`; a job with no
\* image source is answered at once
HandlerStart(j, inputs) ==
    /\ pc[j] = "start"
    /\ \E inp \in inputs :
        /\ job_input' = [job_input EXCEPT ![j] = inp]
        /\ received' = [received EXCEPT ![j] = inp]
        /\ image_quality' = [image_quality EXCEPT ![j] = Clamp(QualityOf(inp))]
        /\ IF ~Truthy(inp.image_url) /\ ~Truthy(inp.image_base64)
           THEN End(j, Return("error", "Image source missing."))
           ELSE Goto(j, After("start")) /\ UNCHANGED result
    /\ UNCHANGED <<obs,
                   wf_ref, loaded_wf, loaded_from, raw_bytes, file, probevars,
                   chanvars, extractvars, calls>>

\* load_workflow (handler.py:77-87), called at handler.py:224
LoadWorkflow(j) ==
    /\ pc[j] = "load_workflow"
    /\ IF Truthy(job_input[j].workflow)
       THEN /\ wf_ref' = [wf_ref EXCEPT ![j] = "client"]
            /\ obs' = [obs EXCEPT ![j].resolved = job_input[j].workflow]
            /\ Goto(j, After("load_workflow"))
            /\ UNCHANGED <<loaded_wf, result>>
       ELSE \E df \in DefaultFiles :
              IF df.ok
              THEN /\ wf_ref' = [wf_ref EXCEPT ![j] = "loaded"]
                   /\ loaded_wf' = [loaded_wf EXCEPT ![j] = Dict(df.doc)]
                   /\ obs' = [obs EXCEPT ![j].resolved = Dict(df.doc)]
                   /\ Goto(j, After("load_workflow"))
                   /\ UNCHANGED result
              ELSE /\ End(j, Raise("RuntimeError",
                                   "Failed to load default workflow.json."))
                   /\ UNCHANGED <<wf_ref, loaded_wf, obs>>
    /\ UNCHANGED <<image_quality,
                   job_input, received, loaded_from, raw_bytes, file, probevars,
                   chanvars, extractvars, calls>>

\* load_image_bytes testing image_base64 before image_url
ImageSourceBase64First(image_url, image_base64) ==
    IF Truthy(image_base64) THEN "base64"
    ELSE IF Truthy(image_url) THEN "url"
    ELSE "none"

\* the source load_image_bytes reads (handler.py:92, 100, 108)
ImageSource(image_url, image_base64) ==
    IF Truthy(image_url) THEN "url"
    ELSE IF Truthy(image_base64) THEN "base64"
    ELSE "none"

\* load_image_bytes (handler.py:91-108), called at handler.py:225
LoadImageBytes(j) ==
    /\ pc[j] = "load_image_bytes"
    /\ LET src == ImageSource(job_input[j].image_url, job_input[j].image_base64) IN
       CASE src = "url" ->
              /\ Called(j, "download")
              /\ loaded_from' = [loaded_from EXCEPT ![j] = "url"]
              /\ \/ \E body \in DownloadBodies :
                      /\ raw_bytes' = [raw_bytes EXCEPT ![j] = body]
                      /\ Goto(j, After("load_image_bytes"))
                      /\ UNCHANGED result
                 \/ /\ End(j, Raise("RuntimeError",
                                    "Failed to download image from 'image_url'."))
                    /\ UNCHANGED raw_bytes
         [] src = "base64" ->
              /\ loaded_from' = [loaded_from EXCEPT ![j] = "base64"]
              /\ UNCHANGED calls
              /\ LET b == StripDataUri(job_input[j].image_base64.b) IN
                 IF B64Valid(b)
                 THEN /\ raw_bytes' = [raw_bytes EXCEPT ![j] = B64Decode(b)]
                      /\ Goto(j, After("load_image_bytes"))
                      /\ UNCHANGED result
                 ELSE /\ End(j, Raise("RuntimeError", "Invalid 'image_base64'."))
                      /\ UNCHANGED raw_bytes
         [] OTHER ->
              /\ End(j, Raise("RuntimeError", "No image source provided."))
              /\ UNCHANGED <<loaded_from, raw_bytes, calls>>
    /\ UNCHANGED <<image_quality, obs,
                   job_input, received, wf_ref, loaded_wf, file, probevars,
                   chanvars, extractvars>>

\* save_image_bytes_as_jpeg leaving a file that is already there
SavedJpegIfAbsent(j, raw) ==
    IF file = NoFile THEN [writer |-> j, data |-> <<"JPG">>] ELSE file

\* save_image_bytes_as_jpeg (handler.py:110-124): the file written for raw
SavedJpeg(j, raw) == [writer |-> j, data |-> <<"JPG">>]

\* handler.py:226-230: save the input image, inject its path into the
\* workflow, enter wait_for_comfyui with the default timeout
SaveImage(j) ==
    /\ pc[j] = "save_image"
    /\ IF ~IsImage(raw_bytes[j])
       THEN /\ End(j, Raise("RuntimeError", "Invalid image file."))
            /\ UNCHANGED <<file, job_input, loaded_wf>>
       ELSE /\ file' = SavedJpeg(j, raw_bytes[j])
            /\ IF InjectError(Workflow(j)) # "ok"
               THEN /\ End(j, Raise(InjectError(Workflow(j)), "workflow[1][inputs]"))
                    /\ UNCHANGED <<job_input, loaded_wf>>
               ELSE /\ IF wf_ref[j] = "client"
                       THEN /\ job_input' = [job_input EXCEPT ![j].workflow =
                                    InjectImage(@, INPUT_IMAGE_PATH)]
                            /\ UNCHANGED loaded_wf
                       ELSE /\ loaded_wf' = [loaded_wf EXCEPT ![j] =
                                    InjectImage(@, INPUT_IMAGE_PATH)]
                            /\ UNCHANGED job_input
                    /\ Goto(j, After("save_image"))
                    /\ UNCHANGED result
    /\ UNCHANGED <<image_quality, obs,
                   received, wf_ref, loaded_from, raw_bytes, probevars,
                   chanvars, extractvars, calls>>

\* ------------------------------------------------------- wait_for_comfyui
\* a loop that runs once more than range(timeout)
HasIterationInclusive(i, n) == i <= n

\* range(timeout) has another iteration after i completed ones
HasIteration(i, n) == i < n

\* wait_for_comfyui's `return` (handler.py:70): back into handler, where the
\* call's frame is gone, or back to the direct caller
Returned(j) ==
    /\ obs' = [obs EXCEPT ![j].ready = TRUE]
    /\ IF caller[j] = "handler"
       THEN /\ Goto(j, After("wait_for_comfyui"))
            /\ attempt' = [attempt EXCEPT ![j] = 0]
            /\ probes' = [probes EXCEPT ![j] = <<>>]
            /\ UNCHANGED result
       ELSE /\ End(j, Return("None", "-"))
            /\ probes' = [probes EXCEPT ![j] = Append(@, "ok")]
            /\ UNCHANGED attempt

\* one iteration of the loop of wait_for_comfyui (handler.py:66-72): the probe
\* answers and the function returns, or it fails and the loop sleeps
Probe(j) ==
    /\ pc[j] = "wait_for_comfyui"
    /\ HasIteration(attempt[j], timeout[j])
    /\ probed' = [probed EXCEPT ![j] = TRUE]
    /\ \/ Returned(j)
       \/ /\ attempt' = [attempt EXCEPT ![j] = @ + 1]
          /\ probes' = [probes EXCEPT ![j] = Append(@, "fail")]
          /\ UNCHANGED <<pc, result, obs>>
    /\ UNCHANGED <<image_quality,
                   job_input, received, wf_ref, loaded_wf, loaded_from,
                   raw_bytes, file, caller, timeout, chanvars, extractvars,
                   calls>>

\* the loop is exhausted (handler.py:73)
ProbeExhausted(j) ==
    /\ pc[j] = "wait_for_comfyui"
    /\ ~HasIteration(attempt[j], timeout[j])
    /\ End(j, Raise("RuntimeError", "ComfyUI is not reachable."))
    /\ UNCHANGED <<image_quality, obs,
                   job_input, received, wf_ref, loaded_wf, loaded_from,
                   raw_bytes, file, probevars, chanvars, extractvars, calls>>

\* ------------------------------------------------------- the event channel
\* handler.py:232-233: ws.connect; a failed connect propagates out of handler
Connect(j) ==
    /\ pc[j] = "connect"
    /\ Called(j, "connect")
    /\ obs' = [obs EXCEPT ![j].ws_client = CLIENT_ID]
    /\ \/ /\ ws' = [ws EXCEPT ![j] = "open"]
          /\ Goto(j, After("connect"))
          /\ UNCHANGED result
       \/ /\ End(j, Raise("WebSocketException", "connect failed"))
          /\ UNCHANGED ws
    /\ UNCHANGED <<image_quality,
                   job_input, received, wf_ref, loaded_wf, loaded_from,
                   raw_bytes, file, probevars, submitted, prompt_id, detector,
                   frames, extractvars>>

\* an exception leaves the try block of handler.py:235-238
Throw(j, exc, msg) ==
    /\ pending' = [pending EXCEPT ![j] = Raise(exc, msg)]
    /\ Goto(j, "finally")

\* a rejected POST /prompt answered by submitting again
FailedPostRetry(j, body) ==
    /\ obs' = [obs EXCEPT ![j].reply = body]
    /\ Goto(j, "queue_prompt")
    /\ UNCHANGED pending

\* urlopen of handler.py:139 raises HTTPError for a non-success status; the
\* exception object holds the response body and nothing catches it
FailedPost(j, body) ==
    /\ obs' = [obs EXCEPT ![j].reply = body]
    /\ Throw(j, "HTTPError", body)

\* the prompt ids the server has issued so far
Issued == {prompt_id[k] : k \in Jobs} \ {"-"}

\* queue_prompt (handler.py:128-140) and handler.py:159: POST /prompt
QueuePrompt(j) ==
    /\ pc[j] = "queue_prompt"
    /\ Called(j, "prompt")
    /\ submitted' = [submitted EXCEPT ![j] =
            [prompt |-> Workflow(j), client_id |-> CLIENT_ID, on_disk |-> file]]
    /\ \/ \E p \in PromptIds \ Issued :
            /\ prompt_id' = [prompt_id EXCEPT ![j] = p]
            /\ detector' = [detector EXCEPT ![j] = "WAITING"]
            /\ Goto(j, "recv")
            /\ UNCHANGED <<pending, obs>>
       \/ /\ \E body \in ErrorBodies : FailedPost(j, body)
          /\ UNCHANGED <<prompt_id, detector>>
       \/ /\ Throw(j, "KeyError", "prompt_id")
          /\ UNCHANGED <<prompt_id, detector, obs>>
    /\ UNCHANGED <<image_quality,
                   job_input, received, wf_ref, loaded_wf, loaded_from,
                   raw_bytes, file, probevars, ws, frames, history, ni, ii,
                   images, final_bytes, result>>

\* one iteration of the wait loop (handler.py:162-168): ws.recv() returns one
\* of `fs` or raises
Recv(j, fs) ==
    /\ pc[j] = "recv"
    /\ Len(frames[j]) < MaxFrames
    /\ \/ \E f \in fs :
            /\ frames' = [frames EXCEPT ![j] = Append(@, f)]
            /\ LET o == OnFrame(f, prompt_id[j]) IN
               CASE o = "break" ->
                      /\ detector' = [detector EXCEPT ![j] = "COMPLETE"]
                      /\ Goto(j, "get_history")
                      /\ UNCHANGED pending
                 [] o = "continue" ->
                      UNCHANGED <<detector, pc, pending>>
                 [] OTHER ->
                      Throw(j, o, "event") /\ UNCHANGED detector
       \/ /\ Throw(j, "WebSocketConnectionClosedException", "recv")
          /\ UNCHANGED <<frames, detector>>
    /\ UNCHANGED <<image_quality, obs,
                   job_input, received, wf_ref, loaded_wf, loaded_from,
                   raw_bytes, file, probevars, ws, submitted, prompt_id,
                   history, ni, ii, images, final_bytes, calls, result>>

\* --------------------------------------------------------------- extraction
\* the loops of handler.py:173-177 move to image (n, i), or end
LoopTo(j, outputs, n, i) ==
    IF n > Len(outputs)
    THEN /\ Goto(j, "finally")
         /\ UNCHANGED <<ni, ii>>
    ELSE /\ ni' = [ni EXCEPT ![j] = n]
         /\ ii' = [ii EXCEPT ![j] = i]
         /\ Goto(j, "get_image")

\* get_history (handler.py:142-145) and handler.py:170-175, up to the first
\* get_image call
GetHistory(j, hs) ==
    /\ pc[j] = "get_history"
    /\ Called(j, "history")
    /\ obs' = [obs EXCEPT ![j].fetched = prompt_id[j]]
    /\ \E h \in hs :
         CASE h.t = "fail" ->
                Throw(j, "HTTPError", "GET /history") /\ UNCHANGED <<history, ni, ii>>
           [] h.t = "noentry" ->
                Throw(j, "KeyError", "history[prompt_id]") /\ UNCHANGED <<history, ni, ii>>
           [] OTHER ->
                /\ history' = [history EXCEPT ![j] = h.outputs]
                /\ LoopTo(j, h.outputs, NextNode(h.outputs, 1), 1)
                /\ UNCHANGED pending
    /\ UNCHANGED <<image_quality,
                   job_input, received, wf_ref, loaded_wf, loaded_from,
                   raw_bytes, file, probevars, chanvars, images, final_bytes,
                   result>>

\* get_image (handler.py:147-156) for image (ni, ii), the append of
\* handler.py:177, and the loops' advance to the next image
GetImage(j) ==
    /\ pc[j] = "get_image"
    /\ Called(j, "view")
    /\ \/ /\ images' = [images EXCEPT ![j] = Append(@, history[j][ni[j]].images[ii[j]])]
          /\ IF ii[j] < Len(history[j][ni[j]].images)
             THEN LoopTo(j, history[j], ni[j], ii[j] + 1)
             ELSE LoopTo(j, history[j], NextNode(history[j], ni[j] + 1), 1)
          /\ UNCHANGED pending
       \/ /\ Throw(j, "HTTPError", "GET /view")
          /\ UNCHANGED <<images, ni, ii>>
    /\ UNCHANGED <<image_quality, obs,
                   job_input, received, wf_ref, loaded_wf, loaded_from,
                   raw_bytes, file, probevars, chanvars, history, final_bytes,
                   result>>

\* images[-1]
SelectedLast(imgs) == imgs[Len(imgs)]

\* handler.py:244: images[0] is the image handed to process_output_image
Selected(imgs) == imgs[1]

\* ws.close() after get_images instead of in a finally clause: skipped when
\* an exception is in flight
WsCloseOnSuccess(state, exc) == IF exc.kind = "raise" THEN state ELSE "closed"

\* ws.close() in the finally clause of handler.py:237-238
WsClose(state, exc) == "closed"

\* handler.py:237-248: the finally clause, then the exception propagates, or
\* the empty result is reported, or the first image is post-processed
Finally(j) ==
    /\ pc[j] = "finally"
    /\ ws' = [ws EXCEPT ![j] = WsClose(@, pending[j])]
    /\ IF pending[j].kind = "raise"
       THEN End(j, pending[j]) /\ UNCHANGED <<final_bytes, calls>>
       ELSE IF images[j] = <<>>
       THEN End(j, Return("error", "No images generated."))
            /\ UNCHANGED <<final_bytes, calls>>
       ELSE /\ Called(j, "process")
            /\ \/ /\ final_bytes' = [final_bytes EXCEPT ![j] =
                          [image |-> Selected(images[j]),
                           quality |-> image_quality[j]]]
                  /\ Goto(j, "upload")
                  /\ UNCHANGED result
               \/ /\ End(j, Raise("UnidentifiedImageError", "output image"))
                  /\ UNCHANGED final_bytes
    /\ UNCHANGED <<image_quality, obs,
                   job_input, received, wf_ref, loaded_wf, loaded_from,
                   raw_bytes, file, probevars, submitted, prompt_id, detector,
                   frames, history, ni, ii, images, pending>>

\* the upload answered by the response for an empty result
ResponseNoImage(url) == Return("error", "No images generated.")

\* handler.py:252-254: the response of a finished job
Response(url) == Return("image_url", url)

\* upload_to_gcs (handler.py:23-34) and handler.py:250-254
Upload(j) ==
    /\ pc[j] = "upload"
    /\ Called(j, "upload")
    /\ \/ /\ obs' = [obs EXCEPT ![j].uploaded = final_bytes[j].image]
          /\ End(j, Response("https://storage.googleapis.com/bucket/results/x.jpg"))
       \/ /\ End(j, Raise("GoogleAPIError", "upload"))
          /\ UNCHANGED obs
    /\ UNCHANGED <<image_quality,
                   job_input, received, wf_ref, loaded_wf, loaded_from,
                   raw_bytes, file, probevars, chanvars, extractvars>>

\* ---------------------------------------------------------- specifications
\* the steps of one handler run, with the job inputs, frames and history
\* documents the environment may supply
Step(j, inputs, fs, hs) ==
    \/ HandlerStart(j, inputs)
    \/ LoadWorkflow(j)
    \/ LoadImageBytes(j)
    \/ SaveImage(j)
    \/ Probe(j)
    \/ ProbeExhausted(j)
    \/ Connect(j)
    \/ QueuePrompt(j)
    \/ Recv(j, fs)
    \/ GetHistory(j, hs)
    \/ GetImage(j)
    \/ Finally(j)
    \/ Upload(j)

\* every job input; few frames and history documents
Next == \E j \in Jobs : Step(j, JobInputs, CoreFrames, CoreHistories)

Spec == Init /\ [][Next]_vars

\* every frame; few job inputs and history documents
NextWait == \E j \in Jobs : Step(j, CoreJobInputs, Frames, CoreHistories)

SpecWait == Init /\ [][NextWait]_vars

\* every image_quality; one job input otherwise, few frames and histories
NextQuality ==
    \E j \in Jobs : Step(j, QualityJobInputs, CompletionFrames, CoreHistories)

SpecQuality == Init /\ [][NextQuality]_vars

\* two jobs are received by handlers running concurrently in one process
InitTwo ==
    /\ InitState(Jobs, "start")
    /\ caller = [j \in Jobs |-> "handler"]
    /\ timeout = [j \in Jobs |-> DEFAULT_TIMEOUT]

\* the server is up: the first readiness probe answers
ProbeAnswered(j) == Probe(j) /\ pc'[j] # pc[j]

\* the steps of two concurrent handler runs against a server that is up, each
\* channel delivering the completion events of both submissions
NextTwo ==
    \E j \in Jobs :
        \/ HandlerStart(j, OneJobInput)
        \/ LoadWorkflow(j)
        \/ LoadImageBytes(j)
        \/ SaveImage(j)
        \/ ProbeAnswered(j)
        \/ Connect(j)
        \/ QueuePrompt(j)
        \/ Recv(j, CompletionFrames)
        \/ GetHistory(j, CoreHistories)
        \/ GetImage(j)
        \/ Finally(j)
        \/ Upload(j)

SpecTwo == InitTwo /\ [][NextTwo]_vars

\* every history document; one job input, and only completion events as frames
NextExtract == \E j \in Jobs : Step(j, OneJobInput, CompletionFrames, Histories)

SpecExtract == Init /\ [][NextExtract]_vars

\* wait_for_comfyui(timeout=n) called directly, for every n up to MaxTimeout
InitProbe ==
    /\ InitJob("wait_for_comfyui")
    /\ caller = [j \in Jobs |-> "direct"]
    /\ \E n \in 0..MaxTimeout : timeout = [j \in Jobs |-> n]

NextProbe == \E j \in Jobs : Probe(j) \/ ProbeExhausted(j)

\* every probe ends (urlopen has a 3 s timeout) and so does every sleep, so
\* the loop keeps taking steps while it has one to take
SpecProbe == InitProbe /\ [][NextProbe]_vars /\ WF_vars(NextProbe)

\* ============================================================== properties
Last(q) == q[Len(q)]

\* the completion event for submission p: a text frame holding
\* {"type": "executing", "data": {"node": null, "prompt_id": p}}
IsCompletionEvent(f, p) ==
    /\ f.kind = "text" /\ f.json = "object"
    /\ f.type = "executing" /\ f.data = "dict"
    /\ f.node = NULL /\ f.prompt_id = p

\* C1: the wait loop is left for the history fetch if and only if the
\* completion event of the job's own submission has been received, it is left
\* on the first such event, and the history is fetched only after it.
C1_CompleteIffOwnCompletionEvent ==
    \A j \in Jobs :
        /\ detector[j] = "COMPLETE" <=>
              \E i \in 1..Len(frames[j]) : IsCompletionEvent(frames[j][i], prompt_id[j])
        /\ \A i \in 1..Len(frames[j]) :
              IsCompletionEvent(frames[j][i], prompt_id[j]) => i = Len(frames[j])
        /\ calls[j]["history"] > 0 => detector[j] = "COMPLETE"
        /\ (detector[j] = "COMPLETE" /\ pc[j] = "done") => calls[j]["history"] = 1
        /\ (detector[j] = "WAITING" /\ pending[j].kind = "none") => pc[j] = "recv"

\* C1 witness: an executing event with node null for another submission was
\* passed over, and the loop stopped on the event of the job's own submission
C1_Witness ==
    /\ prompt_id[1] = "p1"
    /\ frames[1] = <<Executing(NULL, "p2"), Executing(NULL, "p1")>>
    /\ detector[1] = "COMPLETE"
    /\ calls[1]["history"] = 1

\* C2: a received binary frame or JSON event that is not the completion event
\* of the current submission is discarded: the detector stays in WAITING, no
\* exception is raised, and the job is back at ws.recv().
C2_OtherFramesDiscarded ==
    [][\A j \in Jobs :
          (/\ frames'[j] # frames[j]
           /\ Last(frames'[j]).json \in {"-", "object"}
           /\ ~IsCompletionEvent(Last(frames'[j]), prompt_id[j]))
          => (/\ pc'[j] = "recv"
              /\ detector'[j] = "WAITING"
              /\ pending'[j].kind = "none")]_vars

\* C3: wait_for_comfyui(timeout=n) probes at most n times, every probe before
\* the last one failed, it returns exactly when a probe answered and raises
\* "ComfyUI is not reachable." exactly when all n probes failed, and the call
\* always ends.
C3_Safety ==
    \A j \in Jobs :
        /\ Len(probes[j]) <= timeout[j]
        /\ \A i \in 1..(Len(probes[j]) - 1) : probes[j][i] = "fail"
        /\ result[j].kind = "return" <=>
              (probes[j] # <<>> /\ Last(probes[j]) = "ok")
        /\ result[j].kind = "raise" =>
              /\ result[j] = Raise("RuntimeError", "ComfyUI is not reachable.")
              /\ Len(probes[j]) = timeout[j]
              /\ \A i \in 1..Len(probes[j]) : probes[j][i] = "fail"
        /\ (pc[j] = "done") <=> (result[j].kind # "none")

C3_ProbeBudget == [](C3_Safety) /\ <>(pc[1] = "done")

\* C3 witness: all three probes of wait_for_comfyui(timeout=3) failed and the
\* call raised
C3_Witness ==
    /\ timeout[1] = 3
    /\ probes[1] = <<"fail", "fail", "fail">>
    /\ result[1] = Raise("RuntimeError", "ComfyUI is not reachable.")

\* C4: the channel is open exactly while the job is inside the try block, and
\* no handler run ends with the channel open.
C4_ChannelClosedOnExit ==
    \A j \in Jobs :
        /\ pc[j] = "done" => ws[j] # "open"
        /\ (pc[j] = "done" /\ calls[j]["prompt"] > 0) => ws[j] = "closed"
        /\ pc[j] \in {"queue_prompt", "recv", "get_history", "get_image", "finally"}
              => ws[j] = "open"

\* C4 witness: the run ended on an event that is not JSON, channel closed
C4_Witness ==
    /\ pc[1] = "done"
    /\ result[1].kind = "raise" /\ result[1].tag = "JSONDecodeError"
    /\ Last(frames[1]) = NotJsonFrame
    /\ ws[1] = "closed"

\* the outcomes of a job whose input is in error: no image source, malformed
\* base64, image bytes that do not decode, a workflow that cannot be loaded
\* or used
InputErrorMessages ==
    {"Image source missing.", "No image source provided.",
     "Invalid 'image_base64'.", "Invalid image file.",
     "Failed to load default workflow.json.", "workflow[1][inputs]"}

EndedWithInputError(j) == pc[j] = "done" /\ result[j].val \in InputErrorMessages

\* C5: every input error is answered with a structured {error: ...} response
\* returned by handler; none leaves handler as an exception.
C5_InputErrorsAreResponses ==
    \A j \in Jobs :
        EndedWithInputError(j) => (result[j].kind = "return" /\ result[j].tag = "error")

\* C6: a job that ends with an input error has not contacted the remote
\* server: no readiness probe, no connect, no POST /prompt, no history or
\* view fetch.
C6_InputErrorBeforeContact ==
    \A j \in Jobs :
        EndedWithInputError(j) =>
            /\ ~probed[j]
            /\ \A c \in RemoteKinds : calls[j][c] = 0
            /\ ws[j] = "none"

\* C6 witness: a job with malformed base64 ended without any contact
C6_Witness ==
    /\ pc[1] = "done"
    /\ received[1].image_base64 = B64(<<"X">>)
    /\ result[1] = Raise("RuntimeError", "Invalid 'image_base64'.")
    /\ ~probed[1]

\* no node of the outputs bears an image: no "images" key, or an empty list
NoImageBearingNode(outputs) ==
    \A k \in 1..Len(outputs) :
        ~outputs[k].hasImages \/ outputs[k].images = <<>>

\* the history entry of the job's submission was fetched and read
HistoryRead(j) ==
    /\ pc[j] \in {"get_image", "finally", "upload", "done"}
    /\ detector[j] = "COMPLETE"
    /\ pending[j].tag \notin {"HTTPError", "KeyError"} \/ calls[j]["view"] > 0

\* C7: when the history has no image-bearing node, get_images makes no /view
\* fetch and returns an empty list, and handler answers
\* {error: "No images generated."} without post-processing or upload; that
\* answer is given only after a history that was fetched and has no image.
C7_NoImageOutcome ==
    \A j \in Jobs :
        /\ (HistoryRead(j) /\ NoImageBearingNode(history[j])) =>
              /\ calls[j]["view"] = 0
              /\ images[j] = <<>>
              /\ pc[j] \in {"finally", "done"}
              /\ pc[j] = "done" =>
                    /\ result[j] = Return("error", "No images generated.")
                    /\ calls[j]["process"] = 0
                    /\ calls[j]["upload"] = 0
        /\ result[j].val = "No images generated." =>
              /\ HistoryRead(j)
              /\ pending[j].kind = "none"
              /\ NoImageBearingNode(history[j])

\* C7 witness: a node without "images" and a node with an empty list
C7_Witness ==
    /\ pc[1] = "done"
    /\ history[1] = <<[hasImages |-> FALSE, images |-> <<>>],
                      [hasImages |-> TRUE, images |-> <<>>]>>
    /\ result[1] = Return("error", "No images generated.")
    /\ calls[1]["view"] = 0

\* the job came with a valid base64 image and no caller workflow
ValidImageNoWorkflow(inp) ==
    /\ ~Truthy(inp.image_url)
    /\ Truthy(inp.image_base64)
    /\ B64Valid(StripDataUri(inp.image_base64.b))
    /\ IsImage(B64Decode(StripDataUri(inp.image_base64.b)))
    /\ ~Truthy(inp.workflow)

\* C8: with a valid image_base64 and no caller workflow, a bundled default
\* that cannot be loaded makes handler respond
\* {error: "Failed to load default workflow.json."}, nothing sent to the server.
C8_DefaultWorkflowErrorResponse ==
    \A j \in Jobs :
        (/\ ValidImageNoWorkflow(received[j])
         /\ result[j].val = "Failed to load default workflow.json.")
        => /\ result[j] = Return("error", "Failed to load default workflow.json.")
           /\ ~probed[j]
           /\ \A c \in RemoteKinds : calls[j][c] = 0

BothSourcesSet(inp) == Truthy(inp.image_url) /\ Truthy(inp.image_base64)

\* C9 as stated: with both image_url and image_base64 set the handler answers
\* with an error response, loads neither source and contacts no server.
C9_BothSourcesRejected ==
    \A j \in Jobs :
        (pc[j] = "done" /\ BothSourcesSet(received[j])) =>
            /\ result[j].kind = "return" /\ result[j].tag = "error"
            /\ loaded_from[j] = "-"
            /\ ~probed[j]

\* C9 amended: with both sources set the job is not rejected for it: the
\* image is read from image_url, image_base64 is never decoded, and the only
\* error response the job can get is the empty-result one.
C9_UrlTakesPrecedence ==
    \A j \in Jobs :
        BothSourcesSet(received[j]) =>
            /\ loaded_from[j] # "base64"
            /\ pc[j] \notin {"start", "load_workflow", "load_image_bytes", "done"}
                  => (loaded_from[j] = "url" /\ calls[j]["download"] = 1)
            /\ (pc[j] = "done" /\ loaded_from[j] = "-")
                  => result[j] = Raise("RuntimeError",
                                       "Failed to load default workflow.json.")
            /\ (result[j].kind = "return" /\ result[j].tag = "error")
                  => result[j].val = "No images generated."

\* C9 witness: a job with both sources set, an undecodable image_base64 and a
\* good image_url ran to the uploaded result
C9_Witness ==
    /\ pc[1] = "done"
    /\ received[1].image_url = Str("http://x/img.png")
    /\ received[1].image_base64 = B64(<<"X">>)
    /\ loaded_from[1] = "url"
    /\ result[1].kind = "return" /\ result[1].tag = "image_url"

\* C10: the workflow object inside the caller's job input is never changed.
C10_CallerWorkflowUnchanged ==
    \A j \in Jobs : job_input[j].workflow = received[j].workflow

OneImageHistory(j) ==
    /\ Len(history[j]) = 1
    /\ history[j][1].hasImages
    /\ Len(history[j][1].images) = 1

\* C12: after an accepted submission, the completion event and a history of
\* one node with one image, a handler run that returns a response returns
\* {image_url: ...} for that image and no error, having fetched that one
\* image, processed it and uploaded it; the run ends otherwise only with the
\* exception of a failed view fetch, decode or upload.
C12_OneImageSuccess ==
    \A j \in Jobs :
        (pc[j] = "done" /\ detector[j] = "COMPLETE" /\ OneImageHistory(j)) =>
            /\ result[j].kind = "return" =>
                  /\ result[j].tag = "image_url"
                  /\ calls[j]["view"] = 1
                  /\ images[j] = history[j][1].images
                  /\ final_bytes[j].image = history[j][1].images[1]
                  /\ obs[j].uploaded = history[j][1].images[1]
                  /\ calls[j]["process"] = 1 /\ calls[j]["upload"] = 1
            /\ result[j].kind = "raise" =>
                  result[j].tag \in {"HTTPError", "UnidentifiedImageError",
                                     "GoogleAPIError"}

\* C12 witness: the one image b.png was fetched once and the job answered
\* with its URL
C12_Witness ==
    /\ pc[1] = "done"
    /\ history[1] = <<[hasImages |-> TRUE, images |-> <<"b.png">>]>>
    /\ result[1].kind = "return" /\ result[1].tag = "image_url"
    /\ obs[1].uploaded = "b.png"
    /\ calls[1]["view"] = 1

\* C13: the quality handed to the encoder is the job's image_quality limited
\* to 0..100, and 90 when the job has no image_quality.
C13_QualityClamped ==
    \A j \in Jobs :
        final_bytes[j].image # "-" =>
            LET q == received[j].image_quality IN
            final_bytes[j].quality =
                IF q.t = "absent" THEN 90
                ELSE IF q.n > 100 THEN 100
                ELSE IF q.n < 0 THEN 0
                ELSE q.n

\* C13 witness: image_quality 150 reached the encoder as 100
C13_Witness ==
    /\ received[1].image_quality = Num(150)
    /\ final_bytes[1].image # "-"
    /\ final_bytes[1].quality = 100

\* C14: the steps of a handler run happen in the order readiness probe
\* answered, websocket connected, POST /prompt, completion event, history
\* fetch, image fetches, post-processing, upload, response: each step has
\* happened only if the one before it has.
C14_ProtocolOrder ==
    \A j \in Jobs :
        /\ calls[j]["prompt"] > 0 => (obs[j].ready /\ calls[j]["connect"] = 1)
        /\ detector[j] # "-" => calls[j]["prompt"] = 1
        /\ calls[j]["history"] > 0 =>
              (detector[j] = "COMPLETE" /\ calls[j]["history"] = 1)
        /\ calls[j]["view"] > 0 => (calls[j]["history"] = 1 /\ history[j] # <<>>)
        /\ images[j] # <<>> => calls[j]["view"] >= Len(images[j])
        /\ calls[j]["process"] > 0 =>
              /\ images[j] # <<>>
              /\ pending[j].kind = "none"
              /\ calls[j]["view"] = Len(images[j])
              /\ calls[j]["process"] = 1
        /\ calls[j]["upload"] > 0 =>
              (final_bytes[j].image # "-" /\ calls[j]["upload"] = 1)
        /\ (result[j].kind = "return" /\ result[j].tag = "image_url") =>
              calls[j]["upload"] = 1

\* C14 witness: a run that went through every step once and answered
C14_Witness ==
    /\ pc[1] = "done"
    /\ result[1].kind = "return" /\ result[1].tag = "image_url"
    /\ obs[1].ready
    /\ \A c \in {"connect", "prompt", "history", "view", "process", "upload"} :
          calls[1][c] = 1

\* every image of the outputs, node by node in key order, then in list order
RECURSIVE Flatten(_)
Flatten(outputs) ==
    IF outputs = <<>> THEN <<>>
    ELSE (IF Head(outputs).hasImages THEN Head(outputs).images ELSE <<>>)
            \o Flatten(Tail(outputs))

\* node k is the first node of the outputs with a non-empty "images" list
FirstImageNode(outputs, k) ==
    /\ k \in 1..Len(outputs)
    /\ outputs[k].hasImages /\ outputs[k].images # <<>>
    /\ \A m \in 1..(k - 1) : ~outputs[m].hasImages \/ outputs[m].images = <<>>

\* C15: get_images returns every image of the history document in node order
\* then list order, skipping nodes without "images" and nodes with an empty
\* list, and the image handler post-processes is the first image of the first
\* node with a non-empty list.
C15_FirstImageSelected ==
    \A j \in Jobs :
        /\ (pc[j] = "finally" /\ pending[j].kind = "none") =>
              images[j] = Flatten(history[j])
        /\ images[j] = SubSeq(Flatten(history[j]), 1, Len(images[j]))
        /\ final_bytes[j].image # "-" =>
              \E k \in 1..Len(history[j]) :
                  /\ FirstImageNode(history[j], k)
                  /\ final_bytes[j].image = history[j][k].images[1]

\* C15 witness: the first node has an empty list; both images of the second
\* node were returned and the first of them was post-processed
C15_Witness ==
    /\ history[1] = <<[hasImages |-> TRUE, images |-> <<>>],
                      [hasImages |-> TRUE, images |-> <<"b.png", "a.png">>]>>
    /\ images[1] = <<"b.png", "a.png">>
    /\ final_bytes[1].image = "b.png"

\* C16: the workflow POSTed to /prompt has the nodes and fields of the
\* workflow load_workflow returned, with equal values, except that
\* ["1"]["inputs"]["image"] is the path of the saved input image.
C16_OnlyImageInputChanged ==
    \A j \in Jobs :
        calls[j]["prompt"] > 0 =>
            LET s == submitted[j].prompt.d
                r == obs[j].resolved.d
            IN /\ DOMAIN s = DOMAIN r
               /\ \A n \in DOMAIN r \ {"1"} : s[n] = r[n]
               /\ DOMAIN s["1"] = DOMAIN r["1"]
               /\ \A f \in DOMAIN r["1"] \ {"inputs"} : s["1"][f] = r["1"][f]
               /\ DOMAIN s["1"]["inputs"] = DOMAIN r["1"]["inputs"] \cup {"image"}
               /\ \A k \in DOMAIN r["1"]["inputs"] \ {"image"} :
                     s["1"]["inputs"][k] = r["1"]["inputs"][k]
               /\ s["1"]["inputs"]["image"] = INPUT_IMAGE_PATH

\* C16 witness: the caller's two-node workflow was submitted with the image
\* input of node "1" replaced and node "2" as it was
C16_Witness ==
    /\ calls[1]["prompt"] = 1
    /\ obs[1].resolved = Dict(DocFull)
    /\ obs[1].resolved.d["1"]["inputs"]["image"] = "original.png"
    /\ submitted[1].prompt.d["1"]["inputs"]["image"] = INPUT_IMAGE_PATH
    /\ submitted[1].prompt.d["2"] = NodeSampler

\* C17: with two jobs running concurrently under the one CLIENT_ID, each
\* receiving the completion events of both submissions, the submissions have
\* different prompt ids, a job leaves its wait loop for the history fetch only
\* on the completion event of its own prompt id, and the history it fetches
\* is the one of its own prompt id.
C17_OwnSubmissionOnly ==
    \A j \in Jobs :
        /\ calls[j]["prompt"] > 0 => submitted[j].client_id = CLIENT_ID
        /\ \A k \in Jobs \ {j} :
              /\ prompt_id[j] # "-" => prompt_id[j] # prompt_id[k]
              /\ obs[j].fetched # "-" => obs[j].fetched # prompt_id[k]
        /\ detector[j] = "COMPLETE" <=>
              \E i \in 1..Len(frames[j]) : IsCompletionEvent(frames[j][i], prompt_id[j])
        /\ detector[j] = "COMPLETE" =>
              IsCompletionEvent(Last(frames[j]), prompt_id[j])
        /\ calls[j]["history"] > 0 =>
              (detector[j] = "COMPLETE" /\ obs[j].fetched = prompt_id[j])

\* C17 witness: both jobs have submitted; job 1 received the completion event
\* of job 2 first, stayed in its loop, and left on its own event to fetch its
\* own history
C17_Witness ==
    /\ prompt_id[1] = "p1" /\ prompt_id[2] = "p2"
    /\ submitted[1].client_id = submitted[2].client_id
    /\ frames[1] = <<Executing(NULL, "p2"), Executing(NULL, "p1")>>
    /\ detector[1] = "COMPLETE"
    /\ obs[1].fetched = "p1"
    /\ detector[2] = "WAITING"

\* C18: every job saves its input image to the one path INPUT_IMAGE_PATH,
\* replacing whatever is there, and injects that path into its workflow; with
\* two interleaved jobs a job can submit while the file holds the other job's
\* image.
C18_SharedInputFileOverwritten ==
    [][\A j \in Jobs :
          /\ (pc[j] = "save_image" /\ IsImage(raw_bytes[j]) /\ pc'[j] # pc[j])
                => file' = [writer |-> j, data |-> <<"JPG">>]
          /\ calls'[j]["prompt"] > 0 =>
                submitted'[j].prompt.d["1"]["inputs"]["image"] = INPUT_IMAGE_PATH]_vars

\* C18 witness: job 1 POSTed its workflow, which names the shared path, while
\* the file at that path held the image job 2 had saved
C18_Witness ==
    /\ calls[1]["prompt"] = 1
    /\ submitted[1].prompt.d["1"]["inputs"]["image"] = INPUT_IMAGE_PATH
    /\ submitted[2].prompt = None
    /\ submitted[1].on_disk.writer = 2

\* C19: the websocket is connected, with the client id the POST carries,
\* before the workflow is POSTed, and it is open from the POST until the wait
\* loop is left: every frame is received on the channel opened before the
\* submission.
C19_ChannelOpenBeforeSubmission ==
    \A j \in Jobs :
        /\ calls[j]["prompt"] > 0 =>
              /\ calls[j]["connect"] = 1
              /\ obs[j].ws_client = CLIENT_ID
              /\ submitted[j].client_id = obs[j].ws_client
        /\ pc[j] \in {"queue_prompt", "recv"} => ws[j] = "open"
        /\ frames[j] # <<>> => calls[j]["connect"] = 1
        /\ (detector[j] = "COMPLETE" /\ pc[j] = "get_history") => ws[j] = "open"

\* C19 witness: the completion event was the first frame after the POST and
\* was received on the open channel
C19_Witness ==
    /\ prompt_id[1] = "p1"
    /\ frames[1] = <<Executing(NULL, "p1")>>
    /\ detector[1] = "COMPLETE"
    /\ pc[1] = "get_history"
    /\ ws[1] = "open"
    /\ submitted[1].client_id = obs[1].ws_client

\* C20: the wait loop has no timeout; while the completion event of the
\* job's submission has not been delivered and the channel has not failed,
\* whatever other frames arrive, the job is in the wait loop with no history
\* fetch and no result.
C20_WaitsUntilCompletionEvent ==
    \A j \in Jobs :
        (/\ detector[j] = "WAITING"
         /\ pending[j].tag # "WebSocketConnectionClosedException")
        => (/\ pc[j] = "recv"
            /\ pending[j].kind = "none"
            /\ result[j].kind = "none")

==============================================================================
